---- MODULE Spec2Model ----
(***************************************************************************)
(* Connection establishment of tokio-postgres (connect.rs) together with   *)
(* the openssl TLS adapter (postgres-openssl/src/lib.rs).                  *)
(*                                                                         *)
(* connect() is modelled as a state machine whose steps are the await      *)
(* points of connect/connect_once; the external collaborators              *)
(* (make_tls_connect, connect_socket, connect_raw, the simple-query        *)
(* message stream, the openssl session) answer nondeterministically.       *)
(* Host indices are 0-based as in the source (enumerate()).                *)
(***************************************************************************)
EXTENDS Integers, Sequences, FiniteSets, TLC

\* ------------------------------------------------------------------ bounds
MaxHosts == 2
MaxPorts == 2
MaxMsgs == 1

\* ------------------------------------------------------- configuration data
\* config::Host: Tcp(String) | Unix(PathBuf)
Hosts ==
  { [type |-> "Tcp", name |-> "db1"],
    [type |-> "Unix", name |-> "/run/postgresql"] }

\* config::TargetSessionAttrs
TargetSessionAttrs == {"Any", "ReadWrite"}

SeqsUpTo(S, n) == UNION { [1..k -> S] : k \in 0..n }

\* The host lists fed to connect (config.host), the empty one included.
HostLists == SeqsUpTo(Hosts, MaxHosts)

Configs ==
  { [host |-> h, port |-> p, target_session_attrs |-> t] :
      h \in HostLists,
      p \in { [k \in 1..n |-> 5432] : n \in 0..MaxPorts },
      t \in TargetSessionAttrs }

\* ------------------------------------------------------------ error values
NoError == [kind |-> "none", host |-> -1]

\* An error value: its kind and the host attempt that produced it
\* (-1: produced by connect itself, before the loop).
Err(kind, idx) == [kind |-> kind, host |-> idx]

\* ----------------------------------------------------------- openssl session
\* X509 signature algorithm identifiers of the peer certificate.
SigAlgNids ==
  { "md5WithRSAEncryption", "sha1WithRSAEncryption", "ecdsa_with_SHA1",
    "sha256WithRSAEncryption", "ecdsa_with_SHA384", "ED25519", "unknownSigAlg" }

NoCert == [id |-> "none", signature_algorithm |-> "none"]

Certs == { [id |-> "cert", signature_algorithm |-> a] : a \in SigAlgNids }

\* What the adapter can observe of a completed handshake.
SslSessions ==
  { [peer_certificate |-> c, digest_ok |-> d] :
      c \in Certs \cup {NoCert}, d \in BOOLEAN }

NoSsl == [peer_certificate |-> NoCert, digest_ok |-> FALSE]

\* Nid::signature_algorithms(): the digest of a signature algorithm, "none"
\* when the identifier is not a known signature algorithm.
SignatureAlgorithmsDigest(nid) ==
  CASE nid = "md5WithRSAEncryption" -> "MD5"
    [] nid = "sha1WithRSAEncryption" -> "SHA1"
    [] nid = "ecdsa_with_SHA1" -> "SHA1"
    [] nid = "sha256WithRSAEncryption" -> "SHA256"
    [] nid = "ecdsa_with_SHA384" -> "SHA384"
    [] nid = "ED25519" -> "UNDEF"
    [] OTHER -> "none"

\* MessageDigest::from_nid: "none" when openssl has no digest for the nid.
MessageDigestFromNid(nid) ==
  IF nid \in {"MD5", "SHA1", "SHA256", "SHA384"} THEN nid ELSE "none"

NoBinding == [present |-> FALSE, md |-> "none", cert |-> "none"]

\* cert.digest(md): the digest bytes, modelled as the pair (md, certificate).
CertDigest(cert, md) == [present |-> TRUE, md |-> md, cert |-> cert.id]


\* Mutant of tls_server_end_point: the legacy digests are not replaced.
tls_server_end_point_NoSubstitution(ssl) ==
  LET cert == ssl.peer_certificate
      digest == SignatureAlgorithmsDigest(cert.signature_algorithm)
      md == IF digest \in {"MD5", "SHA1"} THEN digest
            ELSE MessageDigestFromNid(digest)
  IN  IF cert = NoCert THEN NoBinding
      ELSE IF digest = "none" THEN NoBinding
      ELSE IF md = "none" THEN NoBinding
      ELSE IF ~ssl.digest_ok THEN NoBinding
      ELSE CertDigest(cert, md)

\* tls_server_end_point(ssl): the tls-server-end-point channel binding data,
\* NoBinding for None.
tls_server_end_point(ssl) ==
  LET cert == ssl.peer_certificate
      digest == SignatureAlgorithmsDigest(cert.signature_algorithm)
      md == IF digest \in {"MD5", "SHA1"} THEN "SHA256"
            ELSE MessageDigestFromNid(digest)
  IN  IF cert = NoCert THEN NoBinding
      ELSE IF digest = "none" THEN NoBinding
      ELSE IF md = "none" THEN NoBinding
      ELSE IF ~ssl.digest_ok THEN NoBinding
      ELSE CertDigest(cert, md)

\* ------------------------------------------------------------------- state
VARIABLES
  config,           \* the Config borrowed by connect
  pc,               \* where connect is: validate, make_tls, connect_socket,
                    \* connect_raw, tls_handshake, raw_auth, try_next, done,
                    \* cancelled
  i,                \* the loop index of connect
  error,            \* connect's `error` local (NoError for None)
  result,           \* what connect returned
  tls,              \* the connector held by the attempt (index into
                    \* connectors, 0 when none is held)
  socket,           \* host index of the socket held by the attempt, -1 if none
  ssl,              \* the TLS session of the attempt's stream
  channel_binding,  \* the channel binding produced by TlsConnectFuture
  client,           \* host index of the client held by the attempt, -1 if none
  msg,              \* the last item the verification stream delivered
  polled,           \* number of non-row messages skipped by the attempt
  connectors,       \* every connector the factory made, with its uses
  calls,            \* the calls made to the collaborators, in order
  attempts          \* the outcome of every finished loop iteration, in order

vars ==
  << config, pc, i, error, result, tls, socket, ssl, channel_binding, client,
     msg, polled, connectors, calls, attempts >>

Pending == [status |-> "pending", client |-> -1, error |-> NoError]
Ok(c) == [status |-> "ok", client |-> c, error |-> NoError]
Failed(e) == [status |-> "err", client |-> -1, error |-> e]
Panicked == [status |-> "panic", client |-> -1, error |-> NoError]

\* Option::unwrap on connect's error local (line 43).
UnwrapError(e) == IF e = NoError THEN Panicked ELSE Failed(e)

NoMsg == [kind |-> "none", cols |-> << >>]

Call(op, idx) == [op |-> op, idx |-> idx]

Init ==
  /\ config \in Configs
  /\ pc = "validate"
  /\ i = 0
  /\ error = NoError
  /\ result = Pending
  /\ tls = 0
  /\ socket = -1
  /\ ssl = NoSsl
  /\ channel_binding = NoBinding
  /\ client = -1
  /\ msg = NoMsg
  /\ polled = 0
  /\ connectors = << >>
  /\ calls = << >>
  /\ attempts = << >>

\* ---------------------------------------------------------------- helpers
\* Mutant of Hostname: the unix socket path is handed over as the hostname.
HostnameOfPath(host) == host.name

\* The hostname handed to the factory (lines 26-31).
Hostname(host) == IF host.type = "Tcp" THEN host.name ELSE ""

\* Mutant of HostMissing: the check for an empty host list is lost.
HostCheckSkipped(cfg) == FALSE

HostMissing(cfg) == cfg.host = << >>

\* Mutant of InvalidNumberOfPorts: only too few ports are rejected.
TooFewPorts(cfg) ==
  Len(cfg.port) > 1 /\ Len(cfg.port) < Len(cfg.host)

InvalidNumberOfPorts(cfg) ==
  Len(cfg.port) > 1 /\ Len(cfg.port) # Len(cfg.host)

\* The connector the factory returns for a hostname during iteration idx.
\* usedBy lists the host attempts that consumed it (TlsConnector::connect).
NewConnector(hostname, idx) ==
  [domain |-> hostname, host |-> idx, usedBy |-> << >>]

\* Mutant of DropLocals: the client survives the drop of the attempt.
DropLocalsLeakClient ==
  /\ tls' = 0
  /\ socket' = -1
  /\ ssl' = NoSsl
  /\ channel_binding' = NoBinding
  /\ client' = client
  /\ polled' = 0

\* The locals of connect_once are dropped when it returns an error.
DropLocals ==
  /\ tls' = 0
  /\ socket' = -1
  /\ ssl' = NoSsl
  /\ channel_binding' = NoBinding
  /\ client' = -1
  /\ polled' = 0

\* make_tls_connect returned an error in iteration i: `?` (line 35) returns
\* it from connect.
FactoryError(e) ==
  /\ attempts' = Append(attempts, [host |-> i, ok |-> FALSE, error |-> e])
  /\ result' = Failed(e)
  /\ pc' = "done"
  /\ UNCHANGED << i, error >>

\* Mutant of RecordFailure: the first error is kept, later ones are dropped.
RecordFailureKeepFirst(e) ==
  /\ error' = IF error = NoError THEN e ELSE error
  /\ attempts' = Append(attempts, [host |-> i, ok |-> FALSE, error |-> e])
  /\ IF i + 1 < Len(config.host)
       THEN /\ i' = i + 1
            /\ pc' = "make_tls"
            /\ result' = result
       ELSE /\ i' = i
            /\ pc' = "done"
            /\ result' = UnwrapError(error')
  /\ DropLocals

\* Mutant of RecordFailure: the loop does not advance, the same host is
\* tried again.
RecordFailureSameHost(e) ==
  /\ error' = e
  /\ attempts' = Append(attempts, [host |-> i, ok |-> FALSE, error |-> e])
  /\ IF i + 1 < Len(config.host)
       THEN /\ i' = i
            /\ pc' = "make_tls"
            /\ result' = result
       ELSE /\ i' = i
            /\ pc' = "done"
            /\ result' = UnwrapError(error')
  /\ DropLocals

\* Mutant of RecordFailure: the assignment `error = Some(e)` is lost.
RecordFailureNoRecord(e) ==
  /\ error' = error
  /\ attempts' = Append(attempts, [host |-> i, ok |-> FALSE, error |-> e])
  /\ IF i + 1 < Len(config.host)
       THEN /\ i' = i + 1
            /\ pc' = "make_tls"
            /\ result' = result
       ELSE /\ i' = i
            /\ pc' = "done"
            /\ result' = UnwrapError(error')
  /\ DropLocals

\* connect_once returned Err(e) in iteration i: `error = Some(e)` (line 39),
\* then the loop advances, or ends with Err(error.unwrap()) (line 43).
RecordFailure(e) ==
  /\ error' = e
  /\ attempts' = Append(attempts, [host |-> i, ok |-> FALSE, error |-> e])
  /\ IF i + 1 < Len(config.host)
       THEN /\ i' = i + 1
            /\ pc' = "make_tls"
            /\ result' = result
       ELSE /\ i' = i
            /\ pc' = "done"
            /\ result' = UnwrapError(error')
  /\ DropLocals

\* Mutant of Accept: the Ok arm does not return, the loop goes on.
AcceptNoReturn(c) ==
  /\ attempts' = Append(attempts, [host |-> i, ok |-> TRUE, error |-> NoError])
  /\ IF i + 1 < Len(config.host)
       THEN /\ i' = i + 1
            /\ pc' = "make_tls"
            /\ result' = result
       ELSE /\ i' = i
            /\ pc' = "done"
            /\ result' = UnwrapError(error)
  /\ UNCHANGED << error, tls, socket, ssl, channel_binding, polled >>

\* connect_once returned Ok((client, connection)) in iteration i: connect
\* returns it at once (line 38).
Accept(c) ==
  /\ result' = Ok(c)
  /\ attempts' = Append(attempts, [host |-> i, ok |-> TRUE, error |-> NoError])
  /\ pc' = "done"
  /\ UNCHANGED << i, error, tls, socket, ssl, channel_binding, polled >>

\* ----------------------------------------------------------------- actions
\* connect, lines 16-24: the two configuration checks.
Validate ==
  /\ pc = "validate"
  /\ IF HostMissing(config)
       THEN /\ result' = Failed(Err("config: host missing", -1))
            /\ pc' = "done"
       ELSE IF InvalidNumberOfPorts(config)
       THEN /\ result' = Failed(Err("config: invalid number of ports", -1))
            /\ pc' = "done"
       ELSE /\ result' = result
            /\ pc' = "make_tls"
  /\ UNCHANGED << config, i, error, tls, socket, ssl, channel_binding, client,
                  msg, polled, connectors, calls, attempts >>

\* connect, lines 25-37: the head of one loop iteration. The factory is asked
\* for a connector; its error leaves connect through `?`; otherwise
\* connect_once starts with connect_socket(idx, config).
MakeTlsConnect ==
  /\ pc = "make_tls"
  /\ msg' = NoMsg
  /\ \E made \in BOOLEAN :
       IF made
         THEN /\ connectors' =
                   Append(connectors,
                          NewConnector(Hostname(config.host[i + 1]), i))
              /\ tls' = Len(connectors')
              /\ calls' = calls \o << Call("make_tls_connect", i),
                                      Call("connect_socket", i) >>
              /\ pc' = "connect_socket"
              /\ UNCHANGED << i, error, result, attempts >>
         ELSE /\ calls' = Append(calls, Call("make_tls_connect", i))
              /\ FactoryError(Err("tls", i))
              /\ UNCHANGED << connectors, tls >>
  /\ UNCHANGED << config, socket, ssl, channel_binding, client, polled >>

\* Mutant of ConnectSocket: the `?` of line 54 is lost, connect_raw starts
\* although connect_socket failed.
ConnectSocketIgnoreError ==
  /\ pc = "connect_socket"
  /\ \E connected \in BOOLEAN :
       /\ socket' = IF connected THEN i ELSE -1
       /\ calls' = Append(calls, Call("connect_raw", i))
       /\ pc' = "connect_raw"
       /\ UNCHANGED << i, error, result, tls, ssl, channel_binding,
                       client, polled, attempts >>
  /\ UNCHANGED << config, msg, connectors >>

\* connect_once, lines 54-55: connect_socket completes; on success
\* connect_raw(socket, tls, config, Some(idx)) starts.
ConnectSocket ==
  /\ pc = "connect_socket"
  /\ \E connected \in BOOLEAN :
       IF connected
         THEN /\ socket' = i
              /\ calls' = Append(calls, Call("connect_raw", i))
              /\ pc' = "connect_raw"
              /\ UNCHANGED << i, error, result, tls, ssl, channel_binding,
                              client, polled, attempts >>
         ELSE /\ RecordFailure(Err("connect_socket", i))
              /\ UNCHANGED calls
  /\ UNCHANGED << config, msg, connectors >>

\* connect_raw, first phase (called at line 55): the stream is set up. The
\* connector is either dropped unused (the session stays in clear text) or
\* consumed by TlsConnector::connect(self, stream), lib.rs lines 136-138.
ConnectRaw ==
  /\ pc = "connect_raw"
  /\ \E step \in {"fail", "plain", "tls"} :
       CASE step = "fail" ->
              /\ RecordFailure(Err("connect_raw: io", i))
              /\ UNCHANGED << connectors, calls >>
         [] step = "plain" ->
              /\ tls' = 0
              /\ pc' = "raw_auth"
              /\ UNCHANGED << i, error, result, socket, ssl, channel_binding,
                              client, polled, attempts, connectors, calls >>
         [] step = "tls" ->
              /\ connectors' =
                   [connectors EXCEPT ![tls].usedBy = Append(@, socket)]
              /\ calls' = Append(calls, Call("tls_connect", i))
              /\ tls' = 0
              /\ pc' = "tls_handshake"
              /\ UNCHANGED << i, error, result, socket, ssl, channel_binding,
                              client, polled, attempts >>
  /\ UNCHANGED << config, msg >>

\* TlsConnectFuture::poll, lib.rs lines 151-160: a handshake error is the
\* future's error; a completed handshake yields the stream and the binding.
ChannelBindingOf(s) ==
  LET buf == tls_server_end_point(s)
  IN  IF buf.present THEN buf ELSE NoBinding

\* Mutant of TlsConnectFuturePoll: a missing channel binding fails the
\* future instead of yielding ChannelBinding::none().
TlsConnectFuturePollStrict ==
  /\ pc = "tls_handshake"
  /\ \/ /\ RecordFailure(Err("tls handshake", i))
     \/ /\ \E s \in SslSessions :
             IF tls_server_end_point(s).present
               THEN /\ ssl' = s
                    /\ channel_binding' = ChannelBindingOf(s)
                    /\ pc' = "raw_auth"
                    /\ UNCHANGED << i, error, result, tls, socket, client,
                                    polled, attempts >>
               ELSE RecordFailure(Err("channel binding", i))
  /\ UNCHANGED << config, msg, connectors, calls >>

TlsConnectFuturePoll ==
  /\ pc = "tls_handshake"
  /\ \/ /\ RecordFailure(Err("tls handshake", i))
     \/ /\ \E s \in SslSessions :
             /\ ssl' = s
             /\ channel_binding' = ChannelBindingOf(s)
        /\ pc' = "raw_auth"
        /\ UNCHANGED << i, error, result, tls, socket, client, polled,
                        attempts >>
  /\ UNCHANGED << config, msg, connectors, calls >>

\* Mutant of RawAuth: the verification query is issued whatever
\* target_session_attrs is.
RawAuthAlwaysVerify ==
  /\ pc = "raw_auth"
  /\ \E authenticated \in BOOLEAN :
       IF ~authenticated
         THEN /\ RecordFailure(Err("connect_raw: protocol", i))
              /\ UNCHANGED calls
         ELSE /\ client' = i
              /\ calls' = Append(calls, Call("simple_query", i))
              /\ pc' = "try_next"
              /\ UNCHANGED << i, error, result, tls, socket, ssl,
                              channel_binding, polled, attempts >>
  /\ UNCHANGED << config, msg, connectors >>

\* Mutant of RawAuth: the verification of lines 57-76 is skipped.
RawAuthSkipVerify ==
  /\ pc = "raw_auth"
  /\ \E authenticated \in BOOLEAN :
       IF ~authenticated
         THEN /\ RecordFailure(Err("connect_raw: protocol", i))
              /\ UNCHANGED calls
         ELSE /\ client' = i
              /\ Accept(client')
              /\ UNCHANGED calls
  /\ UNCHANGED << config, msg, connectors >>

\* connect_raw, second phase: startup and authentication over the stream. On
\* success connect_once goes on at line 57: with ReadWrite the verification
\* query is issued, otherwise the attempt is accepted (line 78).
RawAuth ==
  /\ pc = "raw_auth"
  /\ \E authenticated \in BOOLEAN :
       IF ~authenticated
         THEN /\ RecordFailure(Err("connect_raw: protocol", i))
              /\ UNCHANGED calls
         ELSE /\ client' = i
              /\ IF config.target_session_attrs = "ReadWrite"
                   THEN /\ calls' = Append(calls, Call("simple_query", i))
                        /\ pc' = "try_next"
                        /\ UNCHANGED << i, error, result, tls, socket, ssl,
                                        channel_binding, polled, attempts >>
                   ELSE /\ Accept(client')
                        /\ UNCHANGED calls
  /\ UNCHANGED << config, msg, connectors >>

\* What rows.try_next() can deliver: an error, the end of the stream, a Row
\* (with no column, or with "on", "off" or NULL in column 0), another message.
StreamItems ==
  { [kind |-> "Error", cols |-> << >>],
    [kind |-> "End", cols |-> << >>],
    [kind |-> "CommandComplete", cols |-> << >>],
    [kind |-> "Row", cols |-> << >>],
    [kind |-> "Row", cols |-> << "on" >>],
    [kind |-> "Row", cols |-> << "off" >>],
    [kind |-> "Row", cols |-> << "NULL" >>] }

\* row.try_get(0): an error when the row has no column 0.
TryGet0(row) == IF Len(row.cols) = 0 THEN "error" ELSE row.cols[1]

\* Mutant of IsReadOnly: the value is compared with the wrong literal.
IsReadOnlyWrongLiteral(value) == value = "true"

\* Mutant of IsReadOnly: every value but "off" counts as read-only.
IsReadOnlyUnlessOff(value) == value # "off"

\* The comparison of line 63.
IsReadOnly(value) == value = "on"

\* Mutant of TryNext: the end of the stream breaks the loop like a writable
\* row, so the attempt is accepted.
TryNextAcceptOnEnd ==
  /\ pc = "try_next"
  /\ \E m \in StreamItems :
       /\ msg' = m
       /\ CASE m.kind = "Error" ->
                 RecordFailure(Err("simple_query", i))
            [] m.kind = "End" ->
                 Accept(client) /\ UNCHANGED client
            [] m.kind = "Row" ->
                 IF TryGet0(m) = "error"
                   THEN RecordFailure(Err("column", i))
                   ELSE IF IsReadOnly(TryGet0(m))
                   THEN RecordFailure(Err("permission denied", i))
                   ELSE Accept(client) /\ UNCHANGED client
            [] OTHER ->
                 /\ polled < MaxMsgs
                 /\ polled' = polled + 1
                 /\ UNCHANGED << i, error, result, tls, socket, ssl,
                                 channel_binding, client, pc, attempts >>
  /\ UNCHANGED << config, connectors, calls >>

\* Mutant of TryNext: a message that is not a row is an unexpected message
\* instead of being skipped.
TryNextRejectNonRow ==
  /\ pc = "try_next"
  /\ \E m \in StreamItems :
       /\ msg' = m
       /\ CASE m.kind = "Error" ->
                 RecordFailure(Err("simple_query", i))
            [] m.kind = "End" ->
                 RecordFailure(Err("unexpected message", i))
            [] m.kind = "Row" ->
                 IF TryGet0(m) = "error"
                   THEN RecordFailure(Err("column", i))
                   ELSE IF IsReadOnly(TryGet0(m))
                   THEN RecordFailure(Err("permission denied", i))
                   ELSE Accept(client) /\ UNCHANGED client
            [] OTHER ->
                 RecordFailure(Err("unexpected message", i))
  /\ UNCHANGED << config, connectors, calls >>

\* connect_once, lines 60-75: one turn of the loop over the query's messages.
TryNext ==
  /\ pc = "try_next"
  /\ \E m \in StreamItems :
       /\ msg' = m
       /\ CASE m.kind = "Error" ->
                 RecordFailure(Err("simple_query", i))
            [] m.kind = "End" ->
                 RecordFailure(Err("unexpected message", i))
            [] m.kind = "Row" ->
                 IF TryGet0(m) = "error"
                   THEN RecordFailure(Err("column", i))
                   ELSE IF IsReadOnly(TryGet0(m))
                   THEN RecordFailure(Err("permission denied", i))
                   ELSE Accept(client) /\ UNCHANGED client
            [] OTHER ->
                 /\ polled < MaxMsgs
                 /\ polled' = polled + 1
                 /\ UNCHANGED << i, error, result, tls, socket, ssl,
                                 channel_binding, client, pc, attempts >>
  /\ UNCHANGED << config, connectors, calls >>

\* The caller drops the connect future at one of its await points.
Cancel ==
  /\ pc \in {"connect_socket", "connect_raw", "tls_handshake", "raw_auth",
             "try_next"}
  /\ pc' = "cancelled"
  /\ DropLocals
  /\ UNCHANGED << config, i, error, result, msg, connectors, calls, attempts >>

Next ==
  \/ Validate
  \/ MakeTlsConnect
  \/ ConnectSocket
  \/ ConnectRaw
  \/ TlsConnectFuturePoll
  \/ RawAuth
  \/ TryNext
  \/ Cancel

Spec == Init /\ [][Next]_vars

\* ------------------------------------------------------------------ typing
TypeOK ==
  /\ config \in Configs
  /\ pc \in {"validate", "make_tls", "connect_socket", "connect_raw",
             "tls_handshake", "raw_auth", "try_next", "done", "cancelled"}
  /\ i \in 0..MaxHosts
  /\ result.status \in {"pending", "ok", "err", "panic"}
  /\ tls \in 0..Len(connectors)
  /\ socket \in -1..MaxHosts
  /\ client \in -1..MaxHosts
  /\ ssl \in SslSessions
  /\ polled \in 0..MaxMsgs

\* ------------------------------------------------------- claim vocabulary
NumHosts == Len(config.host)

LastAttempt == attempts[Len(attempts)]

\* The indices of the calls of one kind made for host idx.
CallsOf(op, idx) ==
  { c \in DOMAIN calls : calls[c].op = op /\ calls[c].idx = idx }

\* Every host was tried: hosts 1..N-1 (indices 0..N-2) failed and the last
\* entry is the one of host N.
TriedAllHosts ==
  /\ NumHosts >= 1
  /\ Len(attempts) = NumHosts
  /\ \A k \in 1..(NumHosts - 1) : ~attempts[k].ok

ConfigErrorKinds ==
  {"config: host missing", "config: invalid number of ports"}

\* ------------------------------------------------------------------ claims
\* C1: when the attempts on hosts 1..N-1 fail and the attempt on host N
\* succeeds, connect returns success with the client of host N, one attempt
\* was started per host and none is started afterwards.
C1_LastHostSucceeds ==
  (TriedAllHosts /\ LastAttempt.ok) =>
    /\ pc = "done"
    /\ result = Ok(NumHosts - 1)
    /\ client = NumHosts - 1
    /\ LastAttempt.host = NumHosts - 1
    /\ \A h \in 0..(NumHosts - 1) :
         Cardinality(CallsOf("connect_socket", h)) = 1
    /\ \A c \in DOMAIN calls : calls[c].idx <= NumHosts - 1

C1_Witness ==
  /\ NumHosts >= 2
  /\ TriedAllHosts
  /\ LastAttempt.ok
  /\ result.status = "ok"

\* C2: when the attempt on every one of the N hosts fails, connect fails with
\* exactly the error of the attempt on host N, never with one of hosts 1..N-1.
C2_LastErrorSurfaced ==
  (TriedAllHosts /\ ~LastAttempt.ok) =>
    /\ pc = "done"
    /\ LastAttempt.host = NumHosts - 1
    /\ LastAttempt.error.host = NumHosts - 1
    /\ result = Failed(LastAttempt.error)
    /\ \A k \in 1..(NumHosts - 1) : result.error # attempts[k].error

C2_Witness ==
  /\ NumHosts >= 2
  /\ TriedAllHosts
  /\ ~LastAttempt.ok
  /\ attempts[1].error.kind # LastAttempt.error.kind
  /\ result.status = "err"

\* C3: a factory error on host i is recorded as host i's failure and the loop
\* advances to host i+1; on a non-last host it never ends connect.
C3_FactoryErrorAdvances ==
  \A k \in DOMAIN attempts :
    (attempts[k].error.kind = "tls" /\ attempts[k].host + 1 < NumHosts) =>
      /\ ~(pc = "done" /\ result = Failed(attempts[k].error))
      /\ (k = Len(attempts) =>
            (error = attempts[k].error /\ i = attempts[k].host + 1))

RowOn == [kind |-> "Row", cols |-> << "on" >>]

\* C4: with must-allow-writes, when the first row of the verification query
\* has "on" in its first column the attempt is rejected with a permission
\* error, and with a later host configured the loop stands at that host.
C4_ReadOnlyRejected ==
  (msg = RowOn) =>
    /\ config.target_session_attrs = "ReadWrite"
    /\ LastAttempt = [host |-> LastAttempt.host, ok |-> FALSE,
                      error |-> Err("permission denied", LastAttempt.host)]
    /\ error = LastAttempt.error
    /\ client = -1
    /\ IF LastAttempt.host + 1 < NumHosts
         THEN pc = "make_tls" /\ i = LastAttempt.host + 1 /\ result = Pending
         ELSE pc = "done" /\ result = Failed(LastAttempt.error)

C4_Witness ==
  /\ msg = RowOn
  /\ pc = "make_tls"
  /\ i = 1
  /\ error.kind = "permission denied"

\* C5: with must-allow-writes, an attempt whose socket and handshake
\* succeeded and whose first row has a first column other than "on" is
\* accepted, and connect returns that host's client.
C5_WritableAccepted ==
  (msg.kind = "Row" /\ Len(msg.cols) >= 1 /\ msg.cols[1] # "on") =>
    /\ pc = "done"
    /\ socket = i
    /\ client = i
    /\ result = Ok(i)
    /\ LastAttempt = [host |-> i, ok |-> TRUE, error |-> NoError]

C5_Witness ==
  /\ config.target_session_attrs = "ReadWrite"
  /\ msg = [kind |-> "Row", cols |-> << "NULL" >>]
  /\ result.status = "ok"

\* No collaborator was called: no factory call, no socket, no handshake, no
\* query.
NoIO == calls = << >> /\ connectors = << >> /\ attempts = << >>

EndsWithConfigError ==
  \/ pc = "validate" /\ result = Pending
  \/ /\ pc = "done"
     /\ result.status = "err"
     /\ result.error.kind \in ConfigErrorKinds

\* C6: with an empty host list connect fails with a configuration error and
\* calls no collaborator.
C6_EmptyHostList ==
  (config.host = << >>) => (NoIO /\ EndsWithConfigError)

C6_Witness ==
  config.host = << >> /\ pc = "done" /\ result.status = "err"

\* C7: with more than one port and a port count different from the host
\* count connect fails with a configuration error and calls no collaborator.
C7_PortCountMismatch ==
  (Len(config.port) > 1 /\ Len(config.port) # Len(config.host)) =>
    (NoIO /\ EndsWithConfigError)

C7_Witness ==
  /\ Len(config.port) > 1
  /\ Len(config.port) # Len(config.host)
  /\ config.host # << >>
  /\ pc = "done"
  /\ result.error.kind = "config: invalid number of ports"

\* C8: once the attempt on host i is accepted connect has returned it, and
\* nothing was or is done for a host j > i.
C8_ReturnOnAccept ==
  \A k \in DOMAIN attempts :
    attempts[k].ok =>
      /\ k = Len(attempts)
      /\ pc = "done"
      /\ result = Ok(attempts[k].host)
      /\ \A c \in DOMAIN calls : calls[c].idx <= attempts[k].host
      /\ \A c \in DOMAIN connectors : connectors[c].host <= attempts[k].host

C8_Witness ==
  /\ result.status = "ok"
  /\ result.client + 1 < NumHosts

\* The host attempts started so far (connect_once was entered).
StartedAttempts ==
  { h \in 0..(NumHosts - 1) : CallsOf("connect_socket", h) # {} }

\* C9: every host attempt has exactly one connector, made by one factory call
\* with that host's hostname ("" for a unix socket); a connector is consumed
\* at most once, and only for the stream of the host it was made for.
C9_OneConnectorPerAttempt ==
  /\ \A h \in StartedAttempts :
       /\ Cardinality({ c \in DOMAIN connectors : connectors[c].host = h }) = 1
       /\ Cardinality(CallsOf("connect_socket", h)) = 1
  /\ \A h \in 0..(NumHosts - 1) :
       Cardinality(CallsOf("make_tls_connect", h)) <= 1
  /\ \A c \in DOMAIN connectors :
       LET host == config.host[connectors[c].host + 1]
       IN  /\ connectors[c].domain =
                (IF host.type = "Unix" THEN "" ELSE host.name)
           /\ Len(connectors[c].usedBy) <= 1
           /\ \A u \in DOMAIN connectors[c].usedBy :
                connectors[c].usedBy[u] = connectors[c].host
           /\ Cardinality(CallsOf("tls_connect", connectors[c].host))
                = Len(connectors[c].usedBy)
  /\ tls # 0 => (connectors[tls].host = i /\ connectors[tls].usedBy = << >>)

C9_Witness ==
  /\ Len(connectors) = 2
  /\ connectors[1].usedBy = << 0 >>
  /\ connectors[2].usedBy = << 1 >>
  /\ connectors[2].domain = ""
  /\ connectors[1].domain = "db1"

LegacyDigests == {"MD5", "SHA1"}

\* C10: a binding computed for a certificate whose signature digest is MD5 or
\* SHA-1 is its SHA-256 digest; for any other mapped digest it is computed
\* with that digest; MD5 and SHA-1 are never used.
C10_DigestSelection ==
  LET cert == ssl.peer_certificate
      digest == SignatureAlgorithmsDigest(cert.signature_algorithm)
  IN  /\ channel_binding.present =>
           /\ cert # NoCert
           /\ channel_binding.cert = cert.id
           /\ channel_binding.md \notin LegacyDigests
           /\ digest \in LegacyDigests => channel_binding.md = "SHA256"
           /\ digest \notin LegacyDigests => channel_binding.md = digest
      /\ ( /\ cert # NoCert
           /\ ssl.digest_ok
           /\ digest \in {"MD5", "SHA1", "SHA256", "SHA384"} )
           => channel_binding.present

C10_Witness ==
  /\ channel_binding.present
  /\ channel_binding.md = "SHA256"
  /\ ssl.peer_certificate.signature_algorithm = "md5WithRSAEncryption"
  /\ pc = "raw_auth"


\* The cases in which no binding can be derived from a completed handshake:
\* no peer certificate, no digest mapped to the signature algorithm, or a
\* digest computation that fails.
NoBindingDerivable(s) ==
  \/ s.peer_certificate = NoCert
  \/ SignatureAlgorithmsDigest(s.peer_certificate.signature_algorithm)
       \in {"none", "UNDEF"}
  \/ ~s.digest_ok

\* C11: a step of TlsConnectFuture either completes the handshake, keeping the
\* stream, with the binding "none" whenever no binding can be derived, and
\* records no failure; or it fails with the handshake error and produces no
\* binding (or the future is dropped by the caller).
C11_BindingDegradesToNone ==
  [][ pc = "tls_handshake" =>
        \/ /\ pc' = "raw_auth"
           /\ socket' = socket
           /\ attempts' = attempts
           /\ error' = error
           /\ result' = Pending
           /\ NoBindingDerivable(ssl') <=> (channel_binding' = NoBinding)
        \/ /\ Len(attempts') = Len(attempts) + 1
           /\ attempts'[Len(attempts')].error = Err("tls handshake", i)
           /\ channel_binding' = NoBinding
        \/ pc' = "cancelled" ]_vars

C11_Witness ==
  /\ pc = "raw_auth"
  /\ CallsOf("tls_connect", i) # {}
  /\ socket = i
  /\ ssl.peer_certificate.signature_algorithm = "unknownSigAlg"
  /\ ssl.digest_ok
  /\ channel_binding = NoBinding


\* The operations called for host h, in the order of the calls.
OpsOf(h) ==
  LET s == SelectSeq(calls, LAMBDA c : c.idx = h)
  IN  [k \in 1..Len(s) |-> s[k].op]

\* The calls a host attempt has made when it fails with an error of a kind:
\* the stages up to the failing one, each once, and none after it.
StagesBefore(kind) ==
  LET sock == << "make_tls_connect", "connect_socket" >>
      raw == sock \o << "connect_raw" >>
      rawTls == raw \o << "tls_connect" >>
  IN  CASE kind = "connect_socket" -> { sock }
        [] kind = "connect_raw: io" -> { raw }
        [] kind = "tls handshake" -> { rawTls }
        [] kind = "connect_raw: protocol" -> { raw, rawTls }
        [] OTHER -> { raw \o << "simple_query" >>,
                      rawTls \o << "simple_query" >> }

\* C12: within a host attempt a stage starts only after the preceding one
\* succeeded; a failed stage ends the attempt: the calls made for the host
\* are the stages up to the failing one, each once; the failure is recorded
\* and the loop stands at the next host (or connect has ended with it).
C12_StagesInOrder ==
  /\ pc \in {"connect_raw", "tls_handshake", "raw_auth", "try_next"} =>
       socket = i
  /\ pc = "try_next" => client = i
  /\ \A h \in 0..(NumHosts - 1) :
       \A op \in {"connect_socket", "connect_raw", "tls_connect",
                  "simple_query"} :
         Cardinality(CallsOf(op, h)) <= 1
  /\ \A k \in DOMAIN attempts :
       (~attempts[k].ok /\ attempts[k].error.kind # "tls") =>
         /\ attempts[k].error.host = attempts[k].host
         /\ OpsOf(attempts[k].host) \in StagesBefore(attempts[k].error.kind)
         /\ k = Len(attempts) =>
              /\ error = attempts[k].error
              /\ IF attempts[k].host + 1 < NumHosts
                   THEN /\ i = attempts[k].host + 1
                        /\ result = Pending
                        /\ pc # "done"
                   ELSE /\ pc = "done"
                        /\ result = Failed(attempts[k].error)

C12_Witness ==
  /\ Len(attempts) = 1
  /\ attempts[1].error.kind = "tls handshake"
  /\ pc = "connect_socket"
  /\ i = 1


\* The host indices for which the factory was asked, in the order of the calls.
FactoryCalls ==
  LET s == SelectSeq(calls, LAMBDA c : c.op = "make_tls_connect")
  IN  [k \in 1..Len(s) |-> s[k].idx]

\* The host indices for which connect_once was entered, in order.
SocketCalls ==
  LET s == SelectSeq(calls, LAMBDA c : c.op = "connect_socket")
  IN  [k \in 1..Len(s) |-> s[k].idx]

InFlight ==
  pc \in {"connect_socket", "connect_raw", "tls_handshake", "raw_auth",
          "try_next"}

\* C13: hosts are tried in configuration order, one at a time: the indices
\* tried are 0, 1, 2, ... without gap or repetition, an attempt starts only
\* when all earlier ones have failed, and at most one attempt is unfinished.
C13_HostsInOrder ==
  /\ \A k \in DOMAIN FactoryCalls : FactoryCalls[k] = k - 1
  /\ \A k \in DOMAIN SocketCalls : SocketCalls[k] = k - 1
  /\ \A k \in DOMAIN attempts : attempts[k].host = k - 1
  /\ Len(SocketCalls) <= Len(FactoryCalls)
  /\ Len(FactoryCalls) <= NumHosts
  /\ Len(FactoryCalls) \in { Len(attempts), Len(attempts) + 1 }
  /\ Len(FactoryCalls) = Len(attempts) + 1 => (InFlight \/ pc = "cancelled")
  /\ InFlight =>
       /\ i = Len(attempts)
       /\ Len(FactoryCalls) = Len(attempts) + 1
       /\ \A k \in DOMAIN attempts : ~attempts[k].ok
  /\ pc = "make_tls" =>
       /\ i = Len(attempts)
       /\ \A k \in DOMAIN attempts : ~attempts[k].ok

C13_Witness ==
  /\ InFlight
  /\ i = 1
  /\ FactoryCalls = << 0, 1 >>
  /\ SocketCalls = << 0, 1 >>
  /\ Len(attempts) = 1


\* C14 as stated: with must-allow-writes, when the message stream of the
\* verification query ends without a row, the attempt is accepted and connect
\* returns that host's client.
C14_StreamEndAccepted ==
  (msg.kind = "End") =>
    /\ pc = "done"
    /\ result = Ok(i)
    /\ LastAttempt.ok

\* C14 amended: with must-allow-writes, when the message stream of the
\* verification query ends without a row, the attempt is rejected with an
\* unexpected-message error, no client is returned for that host, and the
\* loop stands at the next host (on the last host connect fails with it).
C14_StreamEndRejected ==
  (msg.kind = "End") =>
    /\ config.target_session_attrs = "ReadWrite"
    /\ LastAttempt = [host |-> LastAttempt.host, ok |-> FALSE,
                      error |-> Err("unexpected message", LastAttempt.host)]
    /\ error = LastAttempt.error
    /\ client = -1
    /\ result.status # "ok"
    /\ IF LastAttempt.host + 1 < NumHosts
         THEN pc = "make_tls" /\ i = LastAttempt.host + 1 /\ result = Pending
         ELSE pc = "done" /\ result = Failed(LastAttempt.error)

C14_Witness ==
  /\ msg.kind = "End"
  /\ pc = "done"
  /\ result = Failed(Err("unexpected message", NumHosts - 1))


\* The error kinds of the stages before the verification query.
HandshakeErrorKinds ==
  {"tls", "connect_socket", "connect_raw: io", "tls handshake",
   "connect_raw: protocol"}

\* C15: the verification query is issued at most once per host attempt, and
\* only with must-allow-writes, for a host whose handshake succeeded; with
\* "any" no query is issued and an attempt whose socket connect and handshake
\* succeeded is accepted.
C15_QueryOnlyForReadWrite ==
  /\ \A h \in 0..(NumHosts - 1) :
       /\ Cardinality(CallsOf("simple_query", h)) <= 1
       /\ CallsOf("simple_query", h) # {} =>
            /\ config.target_session_attrs = "ReadWrite"
            /\ CallsOf("connect_raw", h) # {}
  /\ config.target_session_attrs = "Any" =>
       /\ \A c \in DOMAIN calls : calls[c].op # "simple_query"
       /\ pc # "try_next"
       /\ msg = NoMsg
       /\ \A k \in DOMAIN attempts :
            ~attempts[k].ok => attempts[k].error.kind \in HandshakeErrorKinds
       /\ client # -1 =>
            /\ pc = "done"
            /\ socket = client
            /\ result = Ok(client)
            /\ LastAttempt = [host |-> client, ok |-> TRUE, error |-> NoError]
  /\ (config.target_session_attrs = "ReadWrite" /\ client # -1) =>
       CallsOf("simple_query", client) # {}

C15_Witness ==
  /\ config.target_session_attrs = "Any"
  /\ result = Ok(1)
  /\ CallsOf("tls_connect", 1) # {}
  /\ \A c \in DOMAIN calls : calls[c].op # "simple_query"


\* The steps connect takes while its caller keeps polling it: every step but
\* the caller's drop. Each external stage completes, with success or failure,
\* and the message stream is finite (at most MaxMsgs messages before its
\* first row, error or end).
Progress ==
  \/ Validate
  \/ MakeTlsConnect
  \/ ConnectSocket
  \/ ConnectRaw
  \/ TlsConnectFuturePoll
  \/ RawAuth
  \/ TryNext

LiveSpec == Init /\ [][Next]_vars /\ WF_vars(Progress)

\* C16: when every external stage completes and the message stream is finite,
\* connect ends with success or with an error (unless its caller drops it),
\* after at most one attempt per configured host.
C16_Terminates ==
  /\ <>( \/ pc = "done" /\ result.status \in {"ok", "err"}
         \/ pc = "cancelled" )
  /\ [](Len(attempts) <= NumHosts /\ Len(FactoryCalls) <= NumHosts)

C16_Witness ==
  /\ pc = "done"
  /\ result.status = "err"
  /\ NumHosts = 2
  /\ Len(attempts) = 2
  /\ polled = 0
  /\ attempts[1].error.kind = "simple_query"


\* The calls of an attempt that passed every stage.
PassedStages(ops) ==
  /\ Len(ops) >= 3
  /\ ops[1] = "make_tls_connect"
  /\ ops[2] = "connect_socket"
  /\ ops[3] = "connect_raw"
  /\ config.target_session_attrs = "ReadWrite" =>
       ops[Len(ops)] = "simple_query"

\* C17: a connect dropped by its caller at an await point has delivered no
\* client and holds none; a client is held outside a running attempt only
\* when connect returned Ok, after every stage of that host's attempt passed.
C17_NoClientOnCancel ==
  /\ pc = "cancelled" =>
       /\ result = Pending
       /\ client = -1
       /\ socket = -1
       /\ tls = 0
       /\ \A k \in DOMAIN attempts : ~attempts[k].ok
  /\ result.client # -1 => result.status = "ok"
  /\ result.status = "ok" =>
       /\ pc = "done"
       /\ client = result.client
       /\ LastAttempt = [host |-> client, ok |-> TRUE, error |-> NoError]
       /\ PassedStages(OpsOf(client))
  /\ (client # -1 /\ result.status # "ok") => pc = "try_next"

C17_Witness ==
  /\ pc = "cancelled"
  /\ CallsOf("simple_query", i) # {}
  /\ result = Pending
  /\ client = -1


\* C18: with must-allow-writes, whenever connect has returned success, the
\* client is the one of a host whose verification query was issued and
\* answered with a first row whose first column is not "on".
C18_ReturnedClientIsWritable ==
  (config.target_session_attrs = "ReadWrite" /\ result.status = "ok") =>
    /\ i = result.client
    /\ client = result.client
    /\ Cardinality(CallsOf("simple_query", result.client)) = 1
    /\ msg.kind = "Row"
    /\ Len(msg.cols) >= 1
    /\ msg.cols[1] # "on"
    /\ \A k \in DOMAIN attempts :
         attempts[k].host = result.client => attempts[k].ok

C18_Witness ==
  /\ config.target_session_attrs = "ReadWrite"
  /\ result = Ok(1)
  /\ msg = [kind |-> "Row", cols |-> << "off" >>]
  /\ attempts[1].error.kind = "permission denied"


\* The loop of connect ended by exhaustion: the iteration of the last host
\* finished with an error of connect_once (not through the `?` of line 35).
LoopExhausted ==
  /\ pc = "done"
  /\ NumHosts >= 1
  /\ Len(attempts) = NumHosts
  /\ ~LastAttempt.ok
  /\ LastAttempt.error.kind # "tls"

\* C19: error.unwrap() of line 43 never fails: whenever the loop ends by
\* exhaustion, `error` holds the error of the last iteration.
C19_UnwrapNeverFails ==
  /\ result.status # "panic"
  /\ LoopExhausted =>
       /\ error # NoError
       /\ error = LastAttempt.error
       /\ error.host = NumHosts - 1
       /\ result = Failed(error)
  /\ (pc = "done" /\ result.status = "err"
        /\ result.error.kind \notin ConfigErrorKinds \cup {"tls"}) =>
       LoopExhausted

C19_Witness ==
  /\ LoopExhausted
  /\ NumHosts = 2
  /\ result = Failed(Err("connect_socket", 1))
  /\ attempts[1].error.kind = "column"


\* What the first row alone decides.
RowDecision(cols) ==
  IF Len(cols) = 0 THEN "column"
  ELSE IF cols[1] = "on" THEN "permission denied"
  ELSE "accept"

\* C20: the verification depends on the first Row only: a message that is not
\* a row is skipped and changes nothing but the position in the stream; the
\* first row decides, whatever was skipped before it; after it no further
\* message is read by the attempt.
C20_FirstRowDecides ==
  [][ /\ (pc = "try_next" /\ pc' # "cancelled") =>
           /\ msg'.kind = "CommandComplete" =>
                /\ pc' = "try_next"
                /\ polled' = polled + 1
                /\ UNCHANGED << i, error, result, client, attempts, calls >>
           /\ msg'.kind = "Row" =>
                /\ pc' # "try_next"
                /\ Len(attempts') = Len(attempts) + 1
                /\ attempts'[Len(attempts')] =
                     IF RowDecision(msg'.cols) = "accept"
                       THEN [host |-> i, ok |-> TRUE, error |-> NoError]
                       ELSE [host |-> i, ok |-> FALSE,
                             error |-> Err(RowDecision(msg'.cols), i)]
                /\ (RowDecision(msg'.cols) = "accept") <=> (result' = Ok(i))
      /\ msg.kind = "Row" =>
           /\ pc # "try_next"
           /\ msg' = msg \/ (pc = "make_tls" /\ msg' = NoMsg) ]_vars

C20_Witness ==
  /\ polled >= 1
  /\ msg = [kind |-> "Row", cols |-> << "off" >>]
  /\ result = Ok(i)

====
